---- MODULE Spec2Model ----
(***************************************************************************)
(* Model of collect_inventory.py: the PBIP inventory collector.            *)
(*                                                                         *)
(* A file name is a sequence of one-character strings, a path is a         *)
(* sequence of names, and the filesystem is a function from absolute       *)
(* paths to nodes.  pathlib's stem, suffix, parent and ordering are        *)
(* computed on the characters as pathlib computes them.                    *)
(***************************************************************************)
EXTENDS Integers, Sequences, FiniteSets, TLC

VARIABLES
    fs,             \* the filesystem: absolute path -> [kind, data, rows]
    cwd,            \* working directory of the running process
    root,           \* the --root argument, a pathlib value [abs, parts]
    dry_run,        \* the --dry-run flag of the current run
    pc,             \* position in main/collect
    runs_left,      \* runs of the program still to come
    projects,       \* projects still to iterate (collect:153, in listing order)
    manifest_rows,  \* collect:158
    queue,          \* candidates of the current project still to copy
    pbip_base,      \* collect:167
    log,            \* the "Copy: src -> dst" lines of the current run
    fs0,            \* the filesystem when the current run started
    listed,         \* the projects enumerated by the current run, in order
    shadow,         \* destinations a writing run would have occupied so far
    argv,           \* the command lines the user may give
    arg,            \* input of the pure function under study
    res             \* its result

vars == <<fs, cwd, root, dry_run, pc, runs_left, projects, manifest_rows, queue,
          pbip_base, log, fs0, listed, shadow, argv, arg, res>>

----------------------------------------------------------------------------
(* Bounds *)

MaxStemLen == 3      \* longest descriptor stem given to sanitize_pbip_base
MaxRuns == 2         \* runs of collect over one inventory
MaxProjects == 2     \* project folders under the root /w/r

----------------------------------------------------------------------------
(* Characters and names *)

\* ord() on the characters the model uses.
Lower ==
    <<"a", "b", "c", "d", "e", "f", "g", "h", "i", "j", "k", "l", "m",
      "n", "o", "p", "q", "r", "s", "t", "u", "v", "w", "x", "y", "z">>
Digit == <<"0", "1", "2", "3", "4", "5", "6", "7", "8", "9">>
Ord ==
    [c \in {Lower[i] : i \in DOMAIN Lower} \cup {Digit[i] : i \in DOMAIN Digit}
           \cup {"\t", " ", "-", ".", ":", "M", "R", "S", "_"} |->
        IF \E i \in DOMAIN Lower : Lower[i] = c
        THEN 96 + (CHOOSE i \in DOMAIN Lower : Lower[i] = c)
        ELSE IF \E i \in DOMAIN Digit : Digit[i] = c
        THEN 47 + (CHOOSE i \in DOMAIN Digit : Digit[i] = c)
        ELSE CASE c = "\t" -> 9  [] c = " " -> 32 [] c = "-" -> 45
               [] c = "." -> 46  [] c = ":" -> 58 [] c = "M" -> 77
               [] c = "R" -> 82  [] c = "S" -> 83 [] c = "_" -> 95]

\* str.isspace() on the model's characters.
IsSpace(ch) == ch \in {" ", "\t"}

\* Index of the last "." in a name, 0 when there is none (str.rfind + 1).
RECURSIVE RFindDot(_, _)
RFindDot(name, i) ==
    IF i = 0 THEN 0
    ELSE IF name[i] = "." THEN i ELSE RFindDot(name, i - 1)

\* PurePath.suffix: the last dot and what follows, unless the dot is the
\* first or the last character of the name.
Suffix(name) ==
    LET i == RFindDot(name, Len(name))
    IN  IF 1 < i /\ i < Len(name) THEN SubSeq(name, i, Len(name)) ELSE <<>>

\* PurePath.stem
Stem(name) ==
    LET i == RFindDot(name, Len(name))
    IN  IF 1 < i /\ i < Len(name) THEN SubSeq(name, 1, i - 1) ELSE name

\* fnmatch of the pattern "*<ext>" against a name (ext starts with ".").
EndsWith(name, ext) ==
    /\ Len(name) >= Len(ext)
    /\ SubSeq(name, Len(name) - Len(ext) + 1, Len(name)) = ext

\* str(i) for a positive integer
RECURSIVE Digits(_)
Digits(i) ==
    IF i < 10 THEN <<Digit[i + 1]>>
    ELSE Digits(i \div 10) \o <<Digit[(i % 10) + 1]>>

PBIP == <<".", "p", "b", "i", "p">>
REPORT == <<".", "R", "e", "p", "o", "r", "t">>
SEMANTICMODEL ==
    <<".", "S", "e", "m", "a", "n", "t", "i", "c", "M", "o", "d", "e", "l">>
JSON == <<".", "j", "s", "o", "n">>
TMDL == <<".", "t", "m", "d", "l">>

----------------------------------------------------------------------------
(* sanitize_pbip_base *)

WINDOWS_FORBIDDEN == {"<", ">", ":", "\"", "/", "\\", "|", "?", "*"}

\* str.lstrip() / str.rstrip(chars)
RECURSIVE LStripSpace(_)
LStripSpace(s) ==
    IF s # <<>> /\ IsSpace(Head(s)) THEN LStripSpace(Tail(s)) ELSE s

RECURSIVE RStrip(_, _)
RStrip(s, chars) ==
    IF s # <<>> /\ s[Len(s)] \in chars
    THEN RStrip(SubSeq(s, 1, Len(s) - 1), chars)
    ELSE s

\* str.strip()
Strip(s) == RStrip(LStripSpace(s), {" ", "\t"})

\* the loop body of sanitize_pbip_base without the isspace branch
CleanCharNoSpace(ch) ==
    IF ch \in WINDOWS_FORBIDDEN \/ Ord[ch] < 32 THEN "_" ELSE ch

\* the loop body of sanitize_pbip_base, lines 64-69
CleanChar(ch) ==
    IF ch \in WINDOWS_FORBIDDEN \/ Ord[ch] < 32 THEN "_"
    ELSE IF IsSpace(ch) THEN "_"
    ELSE ch

sanitize_pbip_base(stem) ==
    LET t == Strip(stem)
        cleaned == RStrip([i \in 1..Len(t) |-> CleanChar(t[i])], {".", "_", "-"})
    IN  IF cleaned = <<>> THEN <<"p", "b", "i", "p">> ELSE cleaned

----------------------------------------------------------------------------
(* pathlib values and the filesystem *)

\* A pathlib.Path: anchored at "/" or relative to the working directory.
\* Path(".") has no parts, and so has Path("/").
MkPath(isAbs, parts) == [abs |-> isAbs, parts |-> parts]

\* PurePath.parent: the path without its last part; a path without parts is
\* its own parent.
Parent(p) ==
    IF p.parts = <<>> THEN p
    ELSE MkPath(p.abs, SubSeq(p.parts, 1, Len(p.parts) - 1))

\* PurePath.__truediv__
Join(p, name) == MkPath(p.abs, Append(p.parts, name))

\* The absolute location the operating system resolves p to.
Resolve(wd, p) == IF p.abs THEN p.parts ELSE wd \o p.parts

Last(s) == s[Len(s)]
Front(s) == SubSeq(s, 1, Len(s) - 1)
IsUnder(p, d) == Len(p) > Len(d) /\ SubSeq(p, 1, Len(d)) = d

\* Path.exists(), is_dir(), is_file(): a dangling link is listed by its
\* directory but does not exist.
Exists(f, p) == p \in DOMAIN f /\ f[p].kind # "dangling"
IsDir(f, p) == p \in DOMAIN f /\ f[p].kind = "dir"
IsFile(f, p) == p \in DOMAIN f /\ f[p].kind = "file"

\* Path.iterdir(), Path.glob("*<ext>"), Path.rglob("*<ext>"), as sets: the
\* order of a listing is the operating system's.
IterDir(f, d) == {p \in DOMAIN f : Len(p) = Len(d) + 1 /\ IsUnder(p, d)}
Glob(f, d, ext) == {p \in IterDir(f, d) : EndsWith(Last(p), ext)}
RGlob(f, d, ext) == {p \in DOMAIN f : IsUnder(p, d) /\ EndsWith(Last(p), ext)}

\* All listings of a set.
Perms(S) ==
    {s \in [1..Cardinality(S) -> S] :
        \A i, j \in 1..Cardinality(S) : i # j => s[i] # s[j]}

\* str.__lt__ on names and PurePath.__lt__ on paths: lexicographic by code
\* point, then part by part.
RECURSIVE NameLess(_, _)
NameLess(a, b) ==
    IF b = <<>> THEN FALSE
    ELSE IF a = <<>> THEN TRUE
    ELSE IF Head(a) # Head(b) THEN Ord[Head(a)] < Ord[Head(b)]
    ELSE NameLess(Tail(a), Tail(b))

RECURSIVE PathLess(_, _)
PathLess(p, q) ==
    IF q = <<>> THEN FALSE
    ELSE IF p = <<>> THEN TRUE
    ELSE IF Head(p) # Head(q) THEN NameLess(Head(p), Head(q))
    ELSE PathLess(Tail(p), Tail(q))

\* sorted(S)[0]
SortedFirst(S) == CHOOSE p \in S : \A q \in S \ {p} : PathLess(p, q)

\* ensure_dir: mkdir(parents=True, exist_ok=True)
DirNode == [kind |-> "dir", data |-> <<>>, rows |-> <<>>]
ensure_dir(f, p) ==
    LET new == {SubSeq(p, 1, n) : n \in 0..Len(p)} \ DOMAIN f
    IN  f @@ [q \in new |-> DirNode]

\* shutil.copy2 to a path that does not exist: a new file with src's bytes
copy2(f, src, dst) ==
    (dst :> [kind |-> "file", data |-> f[src].data, rows |-> <<>>]) @@ f

----------------------------------------------------------------------------
(* find_first_pbip *)

HasSiblings(f, p) ==
    /\ IsDir(f, Append(Front(p), Stem(Last(p)) \o REPORT))
    /\ IsDir(f, Append(Front(p), Stem(Last(p)) \o SEMANTICMODEL))

\* the same search with the tier of sibling folders left out
find_first_pbip_no_tier2(f, project_dir) ==
    LET direct == Glob(f, project_dir, PBIP)
        fallback == RGlob(f, project_dir, PBIP)
    IN  IF direct # {} THEN {SortedFirst(direct)}
        ELSE IF fallback # {} THEN {SortedFirst(fallback)}
        ELSE {}

\* Optional[Path] is a set of at most one path.
find_first_pbip(f, project_dir) ==
    LET direct == Glob(f, project_dir, PBIP)
        nested == {p \in RGlob(f, project_dir, PBIP) : HasSiblings(f, p)}
        fallback == RGlob(f, project_dir, PBIP)
    IN  IF direct # {} THEN {SortedFirst(direct)}
        ELSE IF nested # {} THEN {SortedFirst(nested)}
        ELSE IF fallback # {} THEN {SortedFirst(fallback)}
        ELSE {}

----------------------------------------------------------------------------
(* next_available_path, build_dest_name *)

RECURSIVE Probe(_, _, _)
Probe(f, target, i) ==
    LET name == Last(target)
        candidate ==
            Append(Front(target), Stem(name) \o <<"-">> \o Digits(i) \o Suffix(name))
    IN  IF ~Exists(f, candidate) THEN candidate ELSE Probe(f, target, i + 1)

\* the same function without the existence checks
next_available_path_unchecked(f, target) == target

\* the same function with the numbering started at 2
next_available_path_from_two(f, target) ==
    IF ~Exists(f, target) THEN target ELSE Probe(f, target, 2)

next_available_path(f, target) ==
    IF ~Exists(f, target) THEN target ELSE Probe(f, target, 1)

build_dest_name(base, src) == base \o <<"_">> \o Stem(Last(src)) \o Suffix(Last(src))

----------------------------------------------------------------------------
(* gather_candidates *)

ReportRoots(f, pbip_root, pbip) ==
    LET expected_report == Append(pbip_root, Stem(Last(pbip)) \o REPORT)
    IN  IF IsDir(f, expected_report) THEN {expected_report}
        ELSE {p \in Glob(f, pbip_root, REPORT) : IsDir(f, p)}

\* the semantic-model branch with its fallback taken only when the report
\* folder has no exact match either
SemRootsTiedToReport(f, pbip_root, pbip) ==
    LET expected_report == Append(pbip_root, Stem(Last(pbip)) \o REPORT)
        expected_sem == Append(pbip_root, Stem(Last(pbip)) \o SEMANTICMODEL)
    IN  IF IsDir(f, expected_sem) THEN {expected_sem}
        ELSE IF IsDir(f, expected_report) THEN {}
        ELSE {p \in Glob(f, pbip_root, SEMANTICMODEL) : IsDir(f, p)}

SemRoots(f, pbip_root, pbip) ==
    LET expected_sem == Append(pbip_root, Stem(Last(pbip)) \o SEMANTICMODEL)
    IN  IF IsDir(f, expected_sem) THEN {expected_sem}
        ELSE {p \in Glob(f, pbip_root, SEMANTICMODEL) : IsDir(f, p)}

\* The lists that extending by rglob over the roots, taken in the order rs,
\* can produce.
RECURSIVE Extended(_, _, _)
Extended(f, rs, ext) ==
    IF rs = <<>> THEN {<<>>}
    ELSE {a \o b : a \in Perms(RGlob(f, Head(rs), ext)),
                   b \in Extended(f, Tail(rs), ext)}

\* The dictionaries gather_candidates can return: one per listing order.
gather_candidates(f, pbip_root, pbip) ==
    {[report_json |-> rj, report_tmdl |-> rt, sem_json |-> sj, sem_tmdl |-> st] :
        <<rj, rt>> \in UNION {Extended(f, rs, JSON) \X Extended(f, rs, TMDL) :
                              rs \in Perms(ReportRoots(f, pbip_root, pbip))},
        <<sj, st>> \in UNION {Extended(f, rs, JSON) \X Extended(f, rs, TMDL) :
                              rs \in Perms(SemRoots(f, pbip_root, pbip))}}

----------------------------------------------------------------------------
(* The trees the runs start from *)

W == <<"w">>
R == <<"r">>
Q == <<"q">>
INVENTORY == <<"i", "n", "v", "e", "n", "t", "o", "r", "y">>
REPORT_DIR == <<"r", "e", "p", "o", "r", "t">>
SEM_DIR == <<"s", "e", "m", "a", "n", "t", "i", "c", "m", "o", "d", "e", "l">>
JSON_FILES == <<"j", "s", "o", "n", "_", "f", "i", "l", "e", "s">>
TMDL_FILES == <<"t", "m", "d", "l", "_", "f", "i", "l", "e", "s">>
MANIFEST == <<"m", "a", "n", "i", "f", "e", "s", "t", ".", "c", "s", "v">>
HEADER ==
    <<"project_folder", "pbip_file">>

ProjName(i) == <<"p">> \o Digits(i)

Dir(p) == [path |-> p, kind |-> "dir"]
File(p) == [path |-> p, kind |-> "file"]
Dangling(p) == [path |-> p, kind |-> "dangling"]

\* A filesystem holding the given entries; a file's data is its own identity.
MkFs(nodes) ==
    [p \in {n.path : n \in nodes} |->
        [kind |-> (CHOOSE n \in nodes : n.path = p).kind, data |-> p, rows |-> <<>>]]

\* Project folders as exports come: without a descriptor, with the descriptor
\* in the folder, and with the descriptor in a subfolder.
ShapeNames == {"bare", "direct", "nested"}

Shape(name, d) ==
    {Dir(d)} \cup
    CASE name = "bare" ->
            {Dir(d \o <<<<"a">> \o REPORT>>),
             File(d \o <<<<"a">> \o REPORT, <<"x">> \o JSON>>)}
      [] name = "direct" ->
            {File(d \o <<<<"a">> \o PBIP>>),
             Dir(d \o <<<<"a">> \o REPORT>>),
             File(d \o <<<<"a">> \o REPORT, <<"x">> \o JSON>>),
             Dir(d \o <<<<"a">> \o REPORT, <<"s">>>>),
             File(d \o <<<<"a">> \o REPORT, <<"s">>, <<"x">> \o JSON>>),
             Dir(d \o <<<<"a">> \o REPORT, <<"d">> \o TMDL>>),
             Dir(d \o <<<<"a">> \o SEMANTICMODEL>>),
             File(d \o <<<<"a">> \o SEMANTICMODEL, <<"m">> \o TMDL>>),
             Dangling(d \o <<<<"a">> \o SEMANTICMODEL, <<"l">> \o JSON>>)}
      [] name = "nested" ->
            {Dir(d \o <<<<"n">>>>),
             File(d \o <<<<"n">>, <<"a", "-">> \o PBIP>>),
             Dir(d \o <<<<"n">>, <<"a", "-">> \o REPORT>>),
             File(d \o <<<<"n">>, <<"a", "-">> \o REPORT, <<"x", "-", "1">> \o JSON>>),
             Dir(d \o <<<<"n">>, <<"b">> \o SEMANTICMODEL>>),
             File(d \o <<<<"n">>, <<"b">> \o SEMANTICMODEL, <<"y">> \o JSON>>),
             Dir(d \o <<<<"n">>, <<"c">> \o SEMANTICMODEL>>),
             File(d \o <<<<"n">>, <<"c">> \o SEMANTICMODEL, <<"y">> \o JSON>>)}

\* What every tree holds: /, /w, the roots /w/r and /w/q, and one project
\* in /w/q.
BaseNodes ==
    {Dir(<<>>), Dir(<<W>>), Dir(<<W, R>>), Dir(<<W, Q>>), Dir(<<W, Q, ProjName(1)>>),
     File(<<W, Q, ProjName(1), <<"a">> \o PBIP>>),
     Dir(<<W, Q, ProjName(1), <<"a">> \o REPORT>>),
     File(<<W, Q, ProjName(1), <<"a">> \o REPORT, <<"x">> \o JSON>>)}

\* /w/r with MaxProjects project folders of any shape
Trees ==
    {MkFs(BaseNodes \cup UNION {Shape(s[i], <<W, R, ProjName(i)>>) : i \in 1..MaxProjects}) :
        s \in [1..MaxProjects -> ShapeNames]}

\* /w/r with two project folders, the first of them an export
RepeatTrees ==
    {MkFs(BaseNodes \cup Shape(s1, <<W, R, ProjName(1)>>) \cup Shape(s2, <<W, R, ProjName(2)>>)) :
        s1 \in {"direct", "nested"}, s2 \in ShapeNames}

\* The command lines: the working directory and the --root argument.
RootArgs ==
    {[wd |-> <<W>>, path |-> MkPath(TRUE, <<W, R>>)],
     [wd |-> <<W>>, path |-> MkPath(FALSE, <<R>>)],
     [wd |-> <<W, R>>, path |-> MkPath(FALSE, <<>>)],
     [wd |-> <<W>>, path |-> MkPath(TRUE, <<>>)],
     [wd |-> <<W>>, path |-> MkPath(TRUE, <<W, Q>>)]}

\* Two roots that share the inventory /w/inventory.
SiblingRootArgs ==
    {[wd |-> <<W>>, path |-> MkPath(TRUE, <<W, R>>)],
     [wd |-> <<W>>, path |-> MkPath(TRUE, <<W, Q>>)]}

----------------------------------------------------------------------------
(* collect *)

inv_base == Join(Parent(root), INVENTORY)
report_json_dir == Resolve(cwd, Join(Join(inv_base, REPORT_DIR), JSON_FILES))
report_tmdl_dir == Resolve(cwd, Join(Join(inv_base, REPORT_DIR), TMDL_FILES))
sem_json_dir == Resolve(cwd, Join(Join(inv_base, SEM_DIR), JSON_FILES))
sem_tmdl_dir == Resolve(cwd, Join(Join(inv_base, SEM_DIR), TMDL_FILES))
manifest_path == Resolve(cwd, Join(inv_base, MANIFEST))
LeafDirs == {report_json_dir, report_tmdl_dir, sem_json_dir, sem_tmdl_dir}

\* PurePath.relative_to
RelativeTo(p, base) == SubSeq(p, Len(base) + 1, Len(p))

Tagged(files, dest_dir) == [i \in 1..Len(files) |-> [src |-> files[i], dest_dir |-> dest_dir]]

\* The filesystem a writing run would have produced so far.
ShadowFs ==
    fs @@ [p \in shadow |-> [kind |-> "file", data |-> <<>>, rows |-> <<>>]]

\* main, lines 218-223, and collect, lines 139-158: the root is checked, the
\* four leaf directories are made and the projects are listed.
Start ==
    /\ pc \in {"idle", "done"}
    /\ runs_left > 0
    /\ runs_left' = runs_left - 1
    /\ \E a \in argv, d \in BOOLEAN :
        /\ Exists(fs, Resolve(a.wd, a.path)) /\ IsDir(fs, Resolve(a.wd, a.path))
        /\ cwd' = a.wd
        /\ root' = a.path
        /\ dry_run' = d
        /\ fs' = ensure_dir(ensure_dir(ensure_dir(ensure_dir(fs,
                    report_json_dir'), report_tmdl_dir'), sem_json_dir'), sem_tmdl_dir')
        /\ projects' \in Perms({p \in IterDir(fs', Resolve(a.wd, a.path)) : IsDir(fs', p)})
    /\ listed' = projects'
    /\ manifest_rows' = <<>>
    /\ log' = <<>>
    /\ fs0' = fs
    /\ shadow' = {}
    /\ pc' = "loop"
    /\ UNCHANGED <<queue, pbip_base, argv, arg, res>>

\* lines 160-165 with `break` in the place of `continue`
SkipAbort ==
    /\ pc = "loop" /\ queue = <<>> /\ projects # <<>>
    /\ find_first_pbip(fs, Head(projects)) = {}
    /\ projects' = <<>>
    /\ UNCHANGED <<fs, cwd, root, dry_run, pc, runs_left, manifest_rows, queue,
                   pbip_base, log, fs0, listed, shadow, argv, arg, res>>

\* lines 160-165: a project without a descriptor is skipped
Skip ==
    /\ pc = "loop" /\ queue = <<>> /\ projects # <<>>
    /\ find_first_pbip(fs, Head(projects)) = {}
    /\ projects' = Tail(projects)
    /\ UNCHANGED <<fs, cwd, root, dry_run, pc, runs_left, manifest_rows, queue,
                   pbip_base, log, fs0, listed, shadow, argv, arg, res>>

\* lines 160-176 and 197-200: the descriptor is found, the row is recorded
\* and the candidates are gathered, in the four categories' order
Process ==
    /\ pc = "loop" /\ queue = <<>> /\ projects # <<>>
    /\ \E pbip \in find_first_pbip(fs, Head(projects)) :
        /\ pbip_base' = sanitize_pbip_base(Stem(Last(pbip)))
        /\ manifest_rows' =
             Append(manifest_rows,
                    <<RelativeTo(Front(pbip), Resolve(cwd, root)), Last(pbip)>>)
        /\ \E cand \in gather_candidates(fs, Front(pbip), pbip) :
             queue' = Tagged(cand.report_json, report_json_dir)
                      \o Tagged(cand.report_tmdl, report_tmdl_dir)
                      \o Tagged(cand.sem_json, sem_json_dir)
                      \o Tagged(cand.sem_tmdl, sem_tmdl_dir)
    /\ projects' = Tail(projects)
    /\ UNCHANGED <<fs, cwd, root, dry_run, pc, runs_left, log, fs0, listed, shadow, argv, arg, res>>

\* copy_many, lines 180-183
SkipMissing ==
    /\ pc = "loop" /\ queue # <<>>
    /\ ~Exists(fs, Head(queue).src)
    /\ queue' = Tail(queue)
    /\ UNCHANGED <<fs, cwd, root, dry_run, pc, runs_left, projects, manifest_rows,
                   pbip_base, log, fs0, listed, shadow, argv, arg, res>>

\* copy_many, lines 184-187
SkipNotFile ==
    /\ pc = "loop" /\ queue # <<>>
    /\ Exists(fs, Head(queue).src) /\ ~IsFile(fs, Head(queue).src)
    /\ queue' = Tail(queue)
    /\ UNCHANGED <<fs, cwd, root, dry_run, pc, runs_left, projects, manifest_rows,
                   pbip_base, log, fs0, listed, shadow, argv, arg, res>>

\* copy_many, lines 188-195.  A log entry keeps, beside the reported source
\* and destination, the unsuffixed target, the entries of the destination
\* directory immediately before the copy, and the destination a writing run
\* would have resolved at this point.
CopyFile ==
    /\ pc = "loop" /\ queue # <<>>
    /\ Exists(fs, Head(queue).src) /\ IsFile(fs, Head(queue).src)
    /\ LET src == Head(queue).src
           dest_dir == Head(queue).dest_dir
           target == Append(dest_dir, build_dest_name(pbip_base, src))
           dst_path == next_available_path(fs, target)
           would == next_available_path(ShadowFs, target)
       IN  /\ log' = Append(log, [src |-> src, dst |-> dst_path, target |-> target,
                                  before |-> IterDir(fs, dest_dir), would |-> would])
           /\ shadow' = shadow \cup {would}
           /\ fs' = IF dry_run THEN fs
                    ELSE copy2(ensure_dir(fs, Front(dst_path)), src, dst_path)
    /\ queue' = Tail(queue)
    /\ UNCHANGED <<cwd, root, dry_run, pc, runs_left, projects, manifest_rows,
                   pbip_base, fs0, listed, argv, arg, res>>

\* lines 202-210 without the header row
FinishNoHeader ==
    /\ pc = "loop" /\ queue = <<>> /\ projects = <<>>
    /\ fs' = IF dry_run THEN fs
             ELSE (manifest_path :> [kind |-> "file", data |-> <<>>,
                                     rows |-> manifest_rows])
                  @@ ensure_dir(fs, Resolve(cwd, inv_base))
    /\ pc' = "done"
    /\ UNCHANGED <<cwd, root, dry_run, runs_left, projects, manifest_rows, queue,
                   pbip_base, log, fs0, listed, shadow, argv, arg, res>>

\* lines 202-210: the manifest is written, unless the run is a dry run
Finish ==
    /\ pc = "loop" /\ queue = <<>> /\ projects = <<>>
    /\ fs' = IF dry_run THEN fs
             ELSE (manifest_path :> [kind |-> "file", data |-> <<>>,
                                     rows |-> <<HEADER>> \o manifest_rows])
                  @@ ensure_dir(fs, Resolve(cwd, inv_base))
    /\ pc' = "done"
    /\ UNCHANGED <<cwd, root, dry_run, runs_left, projects, manifest_rows, queue,
                   pbip_base, log, fs0, listed, shadow, argv, arg, res>>

Fresh ==
    /\ cwd = <<W>>
    /\ root = MkPath(TRUE, <<W, R>>)
    /\ dry_run = FALSE
    /\ pc = "idle"
    /\ projects = <<>>
    /\ manifest_rows = <<>>
    /\ queue = <<>>
    /\ pbip_base = <<>>
    /\ log = <<>>
    /\ fs0 = fs
    /\ listed = <<>>
    /\ shadow = {}
    /\ arg = <<>>
    /\ res = <<>>

\* one run over any tree
Init ==
    /\ fs \in Trees
    /\ runs_left = 1
    /\ argv = RootArgs
    /\ Fresh

\* MaxRuns runs, one after the other, over the same inventory
InitRepeat ==
    /\ fs \in RepeatTrees
    /\ runs_left = MaxRuns
    /\ argv = SiblingRootArgs
    /\ Fresh

Next ==
    \/ Start
    \/ Skip
    \/ Process
    \/ SkipMissing
    \/ SkipNotFile
    \/ CopyFile
    \/ Finish

Spec == Init /\ [][Next]_vars
SpecRepeat == InitRepeat /\ [][Next]_vars

----------------------------------------------------------------------------
(* The pure functions, each applied to inputs drawn from a bounded set *)

StemChars == {"a", " ", "\t", ":", ".", "_", "-"}
Stems == UNION {[1..n -> StemChars] : n \in 0..MaxStemLen}

Blank ==
    /\ cwd = <<W>>
    /\ root = MkPath(TRUE, <<W, R>>)
    /\ dry_run = FALSE
    /\ pc = "call"
    /\ runs_left = 0
    /\ projects = <<>>
    /\ manifest_rows = <<>>
    /\ queue = <<>>
    /\ pbip_base = <<>>
    /\ log = <<>>
    /\ fs0 = fs
    /\ listed = <<>>
    /\ shadow = {}
    /\ argv = {}

Frame ==
    UNCHANGED <<fs, cwd, root, dry_run, runs_left, projects, manifest_rows, queue,
                pbip_base, log, fs0, listed, shadow, argv, arg>>

InitSanitize ==
    /\ fs = MkFs({Dir(<<>>)})
    /\ arg \in Stems
    /\ res = <<>>
    /\ Blank

SanitizeCall ==
    /\ pc = "call"
    /\ res' = sanitize_pbip_base(arg)
    /\ pc' = "return"
    /\ Frame

SpecSanitize == InitSanitize /\ [][SanitizeCall]_vars

\* The project folder /w/r/p1 with any choice among: descriptors directly in
\* it (one of them a directory), a descriptor in e/, in n/ and in n/k/, and
\* the sibling folders of each nested descriptor; n/a.Report may be a file.
P1 == <<W, R, ProjName(1)>>
LocateOptions ==
    {File(P1 \o <<<<"a">> \o PBIP>>),
     Dir(P1 \o <<<<"b">> \o PBIP>>),
     File(P1 \o <<<<"e">>, <<"b">> \o PBIP>>),
     Dir(P1 \o <<<<"e">>, <<"b">> \o REPORT>>),
     Dir(P1 \o <<<<"e">>, <<"b">> \o SEMANTICMODEL>>),
     File(P1 \o <<<<"n">>, <<"a">> \o PBIP>>),
     Dir(P1 \o <<<<"n">>, <<"a">> \o REPORT>>),
     File(P1 \o <<<<"n">>, <<"a">> \o REPORT>>),
     Dir(P1 \o <<<<"n">>, <<"a">> \o SEMANTICMODEL>>),
     File(P1 \o <<<<"n">>, <<"k">>, <<"a">> \o PBIP>>),
     Dir(P1 \o <<<<"n">>, <<"k">>, <<"a">> \o REPORT>>),
     Dir(P1 \o <<<<"n">>, <<"k">>, <<"a">> \o SEMANTICMODEL>>)}

LocateTrees ==
    {MkFs({Dir(<<>>), Dir(<<W>>), Dir(<<W, R>>), Dir(P1), Dir(P1 \o <<<<"e">>>>),
           Dir(P1 \o <<<<"n">>>>), Dir(P1 \o <<<<"n">>, <<"k">>>>)} \cup opt) :
        opt \in {o \in SUBSET LocateOptions :
                    \A m, n \in o : m.path = n.path => m = n}}

InitLocate ==
    /\ fs \in LocateTrees
    /\ arg = P1
    /\ res = {}
    /\ Blank

LocateCall ==
    /\ pc = "call"
    /\ res' = find_first_pbip(fs, arg)
    /\ pc' = "return"
    /\ Frame

SpecLocate == InitLocate /\ [][LocateCall]_vars

\* The descriptor /w/r/p1/a.pbip beside any choice among a.Report (a folder
\* or a file), b.Report, c.Report (a file), a/b/c.SemanticModel and a
\* k/e.Report one level further down; every folder holds x.json and t.tmdl.
Artifacts(d) == {Dir(d), File(d \o <<<<"x">> \o JSON>>), File(d \o <<<<"t">> \o TMDL>>)}
GatherOptions ==
    {Artifacts(P1 \o <<<<"a">> \o REPORT>>),
     {File(P1 \o <<<<"a">> \o REPORT>>)},
     Artifacts(P1 \o <<<<"b">> \o REPORT>>),
     {File(P1 \o <<<<"c">> \o REPORT>>)},
     Artifacts(P1 \o <<<<"a">> \o SEMANTICMODEL>>),
     Artifacts(P1 \o <<<<"b">> \o SEMANTICMODEL>>),
     Artifacts(P1 \o <<<<"c">> \o SEMANTICMODEL>>),
     Artifacts(P1 \o <<<<"k">>, <<"e">> \o REPORT>>)}

GatherTrees ==
    {MkFs({Dir(<<>>), Dir(<<W>>), Dir(<<W, R>>), Dir(P1), Dir(P1 \o <<<<"k">>>>),
           File(P1 \o <<<<"a">> \o PBIP>>)} \cup UNION opt) :
        opt \in {o \in SUBSET GatherOptions :
                    \A m \in UNION o : \A n \in UNION o : m.path = n.path => m = n}}

InitGather ==
    /\ fs \in GatherTrees
    /\ arg = P1 \o <<<<"a">> \o PBIP>>
    /\ res = {}
    /\ Blank

GatherCall ==
    /\ pc = "call"
    /\ res' \in gather_candidates(fs, Front(arg), arg)
    /\ pc' = "return"
    /\ Frame

SpecGather == InitGather /\ [][GatherCall]_vars

----------------------------------------------------------------------------
(* Properties *)

Range(seq) == {seq[i] : i \in DOMAIN seq}
RootAbs == Resolve(cwd, root)
InvAbs == Resolve(cwd, inv_base)
Running == pc \in {"loop", "done"}

\* target with -k before its extension
WithSuffix(target, k) ==
    Append(Front(target),
           Stem(Last(target)) \o <<"-">> \o Digits(k) \o Suffix(Last(target)))

\* the entries named *.pbip below d
PbipEntries(f, d) == {p \in DOMAIN f : IsUnder(p, d) /\ EndsWith(Last(p), PBIP)}

HasDescriptor(p) == PbipEntries(fs0, p) # {}
Descriptor(p) == CHOOSE x \in find_first_pbip(fs0, p) : TRUE

\* the candidates of project p that are regular files
FileCandidates(p) ==
    LET pbip == Descriptor(p)
        roots == ReportRoots(fs0, Front(pbip), pbip) \cup SemRoots(fs0, Front(pbip), pbip)
    IN  {q \in UNION {RGlob(fs0, r, JSON) \cup RGlob(fs0, r, TMDL) : r \in roots} :
            q \in DOMAIN fs0 /\ fs0[q].kind = "file"}

\* C1: no copy of a writing run lands on a path that existed immediately
\* before it; every file that was there when the run started (the manifest
\* aside) is still there with the same content, every copy of the run still
\* holds its source's content, and a copy whose plain name was taken when the
\* run started sits under that name with a -k suffix, a name that no earlier
\* file bears.
C1_NoOverwrite ==
    Running =>
        /\ \A p \in DOMAIN fs0 :
              (fs0[p].kind = "file" /\ Last(p) # MANIFEST) =>
                  (p \in DOMAIN fs /\ fs[p] = fs0[p])
        /\ ~dry_run =>
              \A i \in DOMAIN log :
                  /\ log[i].dst \notin log[i].before
                  /\ IsFile(fs, log[i].dst)
                  /\ fs[log[i].dst].data = fs[log[i].src].data
                  /\ \A j \in DOMAIN log : j # i => log[j].dst # log[i].dst
                  /\ log[i].target \in DOMAIN fs0 =>
                        /\ log[i].dst \notin DOMAIN fs0
                        /\ \E k \in 1..Cardinality(DOMAIN fs) :
                              log[i].dst = WithSuffix(log[i].target, k)

\* A second writing run has met the first run's copy of the same source and
\* has put its own copy elsewhere.
C1_Witness ==
    /\ pc = "done" /\ ~dry_run
    /\ \E i \in DOMAIN log :
          /\ log[i].target \in DOMAIN fs0
          /\ fs0[log[i].target].data = fs[log[i].src].data
          /\ log[i].dst # log[i].target

\* C2: a dry run leaves the filesystem as it found it.
C2_DryRunWritesNothing == (pc = "done" /\ dry_run) => fs = fs0

\* C3: every copy a dry run reports has the destination a writing run would
\* have resolved at the same point from the same starting filesystem.
C3_DryRunSamePlan ==
    (Running /\ dry_run) => \A i \in DOMAIN log : log[i].dst = log[i].would

\* C4: the descriptor found is the first, in path order, of the entries named
\* *.pbip directly in the project folder when there are any; otherwise the
\* first of the nested ones that have both sibling folders when there are
\* any; otherwise the first of all; and none exactly when there is none.
C4_ThreeTiers ==
    pc = "return" =>
        LET all == PbipEntries(fs, arg)
            direct == {p \in all : Len(p) = Len(arg) + 1}
            paired == {p \in all : HasSiblings(fs, p)}
            tier == IF direct # {} THEN direct
                    ELSE IF paired # {} THEN paired ELSE all
        IN  /\ (res = {}) <=> (all = {})
            /\ Cardinality(res) <= 1
            /\ \A p \in res :
                  p \in tier /\ \A q \in tier : q = p \/ PathLess(p, q)

\* The second tier decides: a nested descriptor without sibling folders comes
\* first in path order and the one with both folders is returned.
C4_Witness ==
    /\ pc = "return"
    /\ \A p \in PbipEntries(fs, arg) : Len(p) > Len(arg) + 1
    /\ \E p \in res : \E q \in PbipEntries(fs, arg) :
          PathLess(q, p) /\ ~HasSiblings(fs, q) /\ HasSiblings(fs, p)

\* C5: at the end of a run a project without a descriptor has no manifest row
\* and no copy, and every project with one has its row and a copy of each of
\* its regular-file candidates, wherever the former stood in the listing.
C5_SkipIsolated ==
    pc = "done" =>
        \A p \in Range(listed) :
            LET rowsOf == {i \in DOMAIN manifest_rows :
                             \/ RootAbs \o manifest_rows[i][1] = p
                             \/ IsUnder(RootAbs \o manifest_rows[i][1], p)}
                copiesOf == {i \in DOMAIN log : IsUnder(log[i].src, p)}
            IN  IF HasDescriptor(p)
                THEN /\ Cardinality(rowsOf) = 1
                     /\ {log[i].src : i \in copiesOf} = FileCandidates(p)
                ELSE rowsOf = {} /\ copiesOf = {}

\* A project without a descriptor was listed first and the export listed
\* after it was copied.
C5_Witness ==
    /\ pc = "done"
    /\ Len(listed) >= 2
    /\ ~HasDescriptor(listed[1])
    /\ HasDescriptor(listed[2])
    /\ \E i \in DOMAIN log : IsUnder(log[i].src, listed[2])

\* C6: the sanitized name is not empty and holds no reserved character, no
\* character below code point 32 and no whitespace; a stem made only of
\* characters that are trimmed, substituted and then stripped gives "pbip".
C6_SanitizeSafe ==
    pc = "return" =>
        /\ Len(res) > 0
        /\ \A i \in DOMAIN res :
              /\ res[i] \notin WINDOWS_FORBIDDEN
              /\ Ord[res[i]] >= 32
              /\ ~IsSpace(res[i])
        /\ (\A i \in DOMAIN arg :
               arg[i] \in WINDOWS_FORBIDDEN \cup {" ", "\t", ".", "_", "-"})
           => res = <<"p", "b", "i", "p">>

\* A reserved character and an inner whitespace character were replaced.
C6_Witness ==
    /\ pc = "return"
    /\ arg = <<":", " ", "a">>
    /\ res = <<"_", "_", "a">>

\* C7: the inventory base lies outside the root and is not among the
\* projects the run lists.
C7_InventoryOutsideRoot ==
    Running =>
        /\ InvAbs # RootAbs
        /\ ~IsUnder(InvAbs, RootAbs)
        /\ InvAbs \notin Range(listed)

\* C8: the manifest of a writing run is the header and, in listing order, one
\* row (the project's path relative to the root, the descriptor's file name)
\* for each listed project that has a descriptor.
C8_ManifestRows ==
    (pc = "done" /\ ~dry_run) =>
        LET sel == SelectSeq(listed, HasDescriptor)
        IN  /\ manifest_path \in DOMAIN fs
            /\ fs[manifest_path].rows =
                  <<HEADER>> \o [i \in 1..Len(sel) |->
                                   <<RelativeTo(sel[i], RootAbs), Last(Descriptor(sel[i]))>>]

\* C8, amended: the manifest of a writing run is the header and, in listing
\* order, one row for each listed project that has a descriptor: the folder
\* that holds the selected descriptor, relative to the root, and the
\* descriptor's file name.
C8_ManifestRowsAmended ==
    (pc = "done" /\ ~dry_run) =>
        LET sel == SelectSeq(listed, HasDescriptor)
            rows == IF manifest_path \in DOMAIN fs THEN fs[manifest_path].rows ELSE <<>>
        IN  /\ IsFile(fs, manifest_path)
            /\ Len(rows) = Len(sel) + 1
            /\ rows[1] = HEADER
            /\ \A i \in 1..Len(sel) :
                  /\ RootAbs \o rows[i + 1][1] = Front(Descriptor(sel[i]))
                  /\ rows[i + 1][2] = Last(Descriptor(sel[i]))

\* A skipped project was listed before an export whose descriptor lies in a
\* subfolder, and the manifest was written.
C8_Witness ==
    /\ pc = "done" /\ ~dry_run
    /\ Len(listed) >= 2
    /\ ~HasDescriptor(listed[1])
    /\ HasDescriptor(listed[2])
    /\ Len(Descriptor(listed[2])) > Len(listed[2]) + 1
    /\ IsFile(fs, manifest_path)

\* C9: for each category the files gathered are those below the folder
\* <stem>.<category> when it is a directory, and otherwise those below every
\* directory directly beside the descriptor whose name ends with the
\* category's suffix; each category decides for itself.
C9_CategoryRoots ==
    pc = "return" =>
        LET beside(sfx) == {d \in DOMAIN fs : /\ Front(d) = Front(arg)
                                              /\ d # <<>>
                                              /\ fs[d].kind = "dir"
                                              /\ EndsWith(Last(d), sfx)}
            exact(sfx) == Append(Front(arg), Stem(Last(arg)) \o sfx)
            roots(sfx) == IF exact(sfx) \in beside(sfx) THEN {exact(sfx)} ELSE beside(sfx)
            below(sfx, ext) == {p \in DOMAIN fs : /\ \E r \in roots(sfx) : IsUnder(p, r)
                                                  /\ EndsWith(Last(p), ext)}
            once(files, S) == Range(files) = S /\ Len(files) = Cardinality(S)
        IN  /\ once(res.report_json, below(REPORT, JSON))
            /\ once(res.report_tmdl, below(REPORT, TMDL))
            /\ once(res.sem_json, below(SEMANTICMODEL, JSON))
            /\ once(res.sem_tmdl, below(SEMANTICMODEL, TMDL))

\* The report folder matched exactly, beside another *.Report folder that was
\* left alone, while the semantic model fell back to two folders.
C9_Witness ==
    /\ pc = "return"
    /\ IsDir(fs, P1 \o <<<<"a">> \o REPORT>>)
    /\ IsDir(fs, P1 \o <<<<"b">> \o REPORT>>)
    /\ P1 \o <<<<"a">> \o SEMANTICMODEL>> \notin DOMAIN fs
    /\ Len(res.report_json) = 1
    /\ Len(res.sem_json) = 2

\* C10: after a writing run that found the leaf directories empty, the
\* copies are one per regular-file candidate; each sits in the leaf of its
\* category folder and extension, holds its source's content and is named
\* <sanitized stem>_<source name>, or that with -k for the least k >= 1 whose
\* name was free when it was copied; the leaves hold nothing else.
C10_CopiedOnce ==
    (pc = "done" /\ ~dry_run /\ \A d \in LeafDirs : IterDir(fs0, d) = {}) =>
        LET projs == {p \in Range(listed) : HasDescriptor(p)}
            cands == UNION {FileCandidates(p) : p \in projs}
            owner(src) == CHOOSE p \in projs : IsUnder(src, p)
            leaf(src) ==
                LET pbip == Descriptor(owner(src))
                    folder == src[Len(pbip)]
                IN  InvAbs \o
                    <<IF EndsWith(folder, REPORT) THEN REPORT_DIR ELSE SEM_DIR,
                      IF EndsWith(Last(src), JSON) THEN JSON_FILES ELSE TMDL_FILES>>
            name(src) ==
                sanitize_pbip_base(Stem(Last(Descriptor(owner(src)))))
                    \o <<"_">> \o Last(src)
        IN  /\ {log[i].src : i \in DOMAIN log} = cands
            /\ Len(log) = Cardinality(cands)
            /\ Cardinality({log[i].dst : i \in DOMAIN log}) = Len(log)
            /\ \A i \in DOMAIN log :
                  LET e == log[i]
                      target == Append(leaf(e.src), name(e.src))
                  IN  /\ IsFile(fs, e.dst)
                      /\ fs[e.dst].data = fs0[e.src].data
                      /\ \/ e.dst = target /\ target \notin e.before
                         \/ \E k \in 1..Len(log) :
                               /\ e.dst = WithSuffix(target, k)
                               /\ e.dst \notin e.before
                               /\ target \in e.before
                               /\ \A j \in 1..(k - 1) : WithSuffix(target, j) \in e.before
            /\ \A d \in LeafDirs :
                  IterDir(fs, d) = {log[i].dst : i \in {j \in DOMAIN log : Front(log[j].dst) = d}}

\* A copy needed -2: its plain name and the -1 name were both taken.
C10_Witness ==
    /\ pc = "done" /\ ~dry_run
    /\ \A d \in LeafDirs : IterDir(fs0, d) = {}
    /\ \E i \in DOMAIN log : log[i].dst = WithSuffix(log[i].target, 2)

====
